---- MODULE Spec2Model ----
(***************************************************************************)
(* Model of pc_lib/pc_lib_utility.py (class PrismaCloudUtility).           *)
(*                                                                         *)
(* Python strings are sequences of one-character strings.  Python values   *)
(* are tagged records: None, Str(s), PyInt(n), Dict(d), List(l).  A call     *)
(* that can leave through sys.exit or through an exception is an operator  *)
(* that yields an effect record: how the call ended (outcome), the value   *)
(* returned, the lines printed, the file-system calls made, the number of  *)
(* lines read from the terminal and the file system afterwards.            *)
(***************************************************************************)
EXTENDS Integers, Sequences, FiniteSets, TLC

VARIABLES
    fs,      \* the file system: absolute path -> Absent or a file's text
    args,    \* the process's argparse namespace (a record), or a pure function's inputs
    stdin,   \* the line the terminal would deliver to the next input() call
    op,      \* the operation that ran last ("init" before any)
    ret,     \* what the last operation did: its effect record
    pc       \* "running", or "exited" once sys.exit or an uncaught exception ended the process

vars == <<fs, args, stdin, op, ret, pc>>

-----------------------------------------------------------------------------
(* Python values *)

None == [t |-> "None"]
Str(s) == [t |-> "str", v |-> s]
PyInt(n) == [t |-> "int", v |-> n]
Dict(d) == [t |-> "dict", v |-> d]
List(l) == [t |-> "list", v |-> l]

\* Python's truth value of an object (`not x` is its negation).
Truthy(x) ==
    CASE x.t = "None" -> FALSE
      [] x.t = "str"  -> x.v # <<>>
      [] x.t = "int"  -> x.v # 0
      [] x.t = "dict" -> DOMAIN x.v # {}
      [] x.t = "list" -> x.v # <<>>

\* Python's == on two values of the modelled types.
PyEq(x, y) == x.t = y.t /\ x.v = y.v

-----------------------------------------------------------------------------
(* str methods *)

UpperCase == <<"A","B","C","D","E","F","G","H","I","J","K","L","M",
               "N","O","P","Q","R","S","T","U","V","W","X","Y","Z">>
LowerCase == <<"a","b","c","d","e","f","g","h","i","j","k","l","m",
               "n","o","p","q","r","s","t","u","v","w","x","y","z">>

LowerChar(c) ==
    IF \E i \in 1..Len(UpperCase) : UpperCase[i] = c
    THEN LowerCase[CHOOSE i \in 1..Len(UpperCase) : UpperCase[i] = c]
    ELSE c

\* str.lower()
lower(s) == [i \in 1..Len(s) |-> LowerChar(s[i])]

\* str.replace(old, new): leftmost, non-overlapping occurrences, one pass.
RECURSIVE replace(_, _, _)
replace(s, old, new) ==
    IF Len(s) < Len(old) THEN s
    ELSE IF SubSeq(s, 1, Len(old)) = old
         THEN new \o replace(SubSeq(s, Len(old) + 1, Len(s)), old, new)
         ELSE <<s[1]>> \o replace(Tail(s), old, new)

\* str.rstrip(chars)
RECURSIVE rstrip(_, _)
rstrip(s, chars) ==
    IF s # <<>> /\ s[Len(s)] \in chars
    THEN rstrip(SubSeq(s, 1, Len(s) - 1), chars)
    ELSE s

HTTP == <<"h","t","t","p",":","/","/">>
HTTPS == <<"h","t","t","p","s",":","/","/">>
APP == <<"a","p","p">>
API == <<"a","p","i">>
REDLOCK == <<"r","e","d","l","o","c","k">>
PRISMACLOUD == <<"p","r","i","s","m","a","c","l","o","u","d">>

-----------------------------------------------------------------------------
(* URL normalization *)

normalize_api_base(api) ==
    IF ~Truthy(api) THEN None
    ELSE LET a1 == lower(api.v)
             a2 == replace(a1, APP, API)
             a3 == replace(a2, REDLOCK, PRISMACLOUD)
             a4 == replace(a3, HTTP, <<>>)
             a5 == replace(a4, HTTPS, <<>>)
         IN  Str(rstrip(a5, {"/"}))

normalize_api_compute_base(api_compute) ==
    IF ~Truthy(api_compute) THEN None
    ELSE LET a1 == lower(api_compute.v)
             a2 == replace(a1, HTTP, <<>>)
             a3 == replace(a2, HTTPS, <<>>)
         IN  Str(rstrip(a3, {"/"}))

-----------------------------------------------------------------------------
(* Process exit and the effect of a call *)

\* A line written to standard output by print().
Line(text) == [text |-> text]
Blank == Line("")

\* What a call did.  outcome is "return" (value is what it returned), "exit"
\* (sys.exit(status)) or "raise" (exc is the exception that propagates out
\* of the call); out are the lines printed, log the file-system calls,
\* nread the number of input() calls, fs the file system afterwards.
Effect(outcome, value, status, exc, out, log, nread, fsys) ==
    [outcome |-> outcome, value |-> value, status |-> status, exc |-> exc,
     out |-> out, log |-> log, nread |-> nread, fs |-> fsys]

Return(value, out, log, nread, fsys) ==
    Effect("return", value, 0, "", out, log, nread, fsys)

Raise(exc, out, log, nread, fsys) ==
    Effect("raise", None, 0, exc, out, log, nread, fsys)

\* error_and_exit(error_code, error_message, system_message), called after
\* `out` was printed, `log` was done and `nread` lines were read.  A message
\* that is None in the source is "" here (every message the source passes
\* is a non-empty literal or an exception).
error_and_exit(error_code, error_message, system_message, out, log, nread, fsys) ==
    Effect("exit", None, 1, "",
           out \o <<Blank, Blank, [text |-> "Status Code: %s", code |-> error_code]>>
               \o (IF error_message # "" THEN <<Line(error_message)>> ELSE <<>>)
               \o (IF system_message # "" THEN <<Line(system_message)>> ELSE <<>>)
               \o <<Blank>>,
           log, nread, fsys)

-----------------------------------------------------------------------------
(* os.path and the file system *)

SEP == "/"

\* os.getcwd(): the directory the scripts run in.
Cwd == <<"/","w">>

\* os.path.join(a, b) on POSIX.
join(a, b) ==
    IF b # <<>> /\ b[1] = SEP THEN b
    ELSE IF a = <<>> \/ a[Len(a)] = SEP THEN a \o b
    ELSE a \o <<SEP>> \o b

\* The file a (possibly relative) path names: relative paths are resolved
\* against the current working directory by the operating system.
Resolve(path) == join(Cwd, path)

Absent == [k |-> "absent"]
File(text) == [k |-> "file", text |-> text]

\* os.path.isfile(path)
isfile(fsys, path) ==
    /\ Resolve(path) \in DOMAIN fsys
    /\ fsys[Resolve(path)].k = "file"

Call(name, path) == [call |-> name, path |-> Resolve(path)]

-----------------------------------------------------------------------------
(* json: a text is a sequence of tokens (white space, which is all that    *)
(* indent=4 and the separators change, is not part of it)                  *)

\* A token: its kind k and, by kind, a string's characters s, an integer n
\* or an object key's name.
Tok(k, s, n, key) == [k |-> k, s |-> s, n |-> n, key |-> key]
LBRACE == Tok("{", <<>>, 0, "")
RBRACE == Tok("}", <<>>, 0, "")
LBRACK == Tok("[", <<>>, 0, "")
RBRACK == Tok("]", <<>>, 0, "")
COLON == Tok(":", <<>>, 0, "")
COMMA == Tok(",", <<>>, 0, "")
TNull == Tok("null", <<>>, 0, "")
TStr(s) == Tok("str", s, 0, "")
TInt(n) == Tok("int", <<>>, n, "")
TKey(name) == Tok("key", <<>>, 0, name)

ScalarKinds == {"null", "str", "int"}

\* The token of a scalar value, and the value of a scalar token.
ScalarToken(x) ==
    CASE x.t = "None" -> TNull
      [] x.t = "str"  -> TStr(x.v)
      [] x.t = "int"  -> TInt(x.v)

ScalarValue(tok) ==
    CASE tok.k = "null" -> None
      [] tok.k = "str"  -> Str(tok.s)
      [] tok.k = "int"  -> PyInt(tok.n)

\* The order in which a settings dictionary's keys were inserted, which is
\* the order json.dumps writes them in (write_settings_file, lines 106-111).
KeyOrder ==
    <<"settings_file_version", "apiBase", "username", "password", "api_compute", "ca_bundle">>

RECURSIVE DumpMembers(_, _)
DumpMembers(d, keys) ==
    IF keys = <<>> THEN <<>>
    ELSE LET rest == DumpMembers(d, Tail(keys))
         IN  IF Head(keys) \in DOMAIN d
             THEN <<TKey(Head(keys)), COLON, ScalarToken(d[Head(keys)])>>
                  \o (IF rest = <<>> THEN <<>> ELSE <<COMMA>> \o rest)
             ELSE rest

\* json.dumps(data) for a dictionary of scalars.
json_dumps(data) == <<LBRACE>> \o DumpMembers(data.v, KeyOrder) \o <<RBRACE>>

\* json.load: [ok |-> TRUE, value |-> v], or [ok |-> FALSE] where json.load
\* raises.  Scalars, arrays of scalars and objects of scalars are read.
IsObjectText(toks) ==
    LET n == Len(toks) IN
    /\ n >= 2
    /\ toks[1] = LBRACE
    /\ toks[n] = RBRACE
    /\ \/ n = 2
       \/ /\ (n - 1) % 4 = 0
          /\ \A j \in 0..(((n - 1) \div 4) - 1) :
                /\ toks[2 + 4 * j].k = "key"
                /\ toks[3 + 4 * j] = COLON
                /\ toks[4 + 4 * j].k \in ScalarKinds
                /\ toks[5 + 4 * j] = (IF 5 + 4 * j = n THEN RBRACE ELSE COMMA)

ObjectValue(toks) ==
    LET m == (Len(toks) - 1) \div 4
        keys == {toks[2 + 4 * j].key : j \in 0..(m - 1)}
        \* a repeated key keeps its last value
        last(key) == CHOOSE j \in 0..(m - 1) :
                        /\ toks[2 + 4 * j].key = key
                        /\ \A i \in 0..(m - 1) : toks[2 + 4 * i].key = key => i <= j
    IN  Dict([key \in keys |-> ScalarValue(toks[4 + 4 * last(key)])])

IsArrayText(toks) ==
    LET n == Len(toks) IN
    /\ n >= 2
    /\ toks[1] = LBRACK
    /\ toks[n] = RBRACK
    /\ \/ n = 2
       \/ /\ n % 2 = 1
          /\ \A j \in 2..(n - 1) :
                IF j % 2 = 0 THEN toks[j].k \in ScalarKinds ELSE toks[j] = COMMA

ArrayValue(toks) ==
    List([i \in 1..((Len(toks) - 1) \div 2) |-> ScalarValue(toks[2 * i])])

json_load(toks) ==
    IF Len(toks) = 1 /\ toks[1].k \in ScalarKinds
    THEN [ok |-> TRUE, value |-> ScalarValue(toks[1])]
    ELSE IF IsObjectText(toks) THEN [ok |-> TRUE, value |-> ObjectValue(toks)]
    ELSE IF IsArrayText(toks) THEN [ok |-> TRUE, value |-> ArrayValue(toks)]
    ELSE [ok |-> FALSE]

\* read_json_file(file_name), called after `log` was done.
read_json_file(file_name, log, fsys) ==
    LET file_name_and_path == join(Cwd, file_name)
        log1 == log \o <<Call("open_r", file_name_and_path)>>
        loaded == json_load(fsys[file_name_and_path].text)
    IN  IF isfile(fsys, file_name_and_path) /\ loaded.ok
        THEN Return(loaded.value, <<>>, log1, 0, fsys)
        ELSE error_and_exit(500, "Failed to read JSON file.", "ex", <<>>, log1, 0, fsys)

\* write_json_file(file_name, data_to_write, pretty), called after `log` was
\* done.  open(..., 'w') succeeds on every path of the modelled file system
\* (its directories exist and are writable) and fails on any other.
write_json_file(file_name, data_to_write, pretty, log, fsys) ==
    LET file_name_and_path == join(Cwd, file_name)
        log1 == log \o <<Call("open_w", file_name_and_path)>>
    IN  IF file_name_and_path \in DOMAIN fsys
        THEN Return(None, <<>>, log1, 0,
                    [fsys EXCEPT ![file_name_and_path] = File(json_dumps(data_to_write))])
        ELSE error_and_exit(500, "Failed to write JSON file.", "ex", <<>>, log1, 0, fsys)

-----------------------------------------------------------------------------
(* Settings *)

DEFAULT_SETTINGS_FILE_NAME ==
    <<"p","c","-","s","e","t","t","i","n","g","s",".","c","o","n","f">>

DEFAULT_SETTINGS_FILE_VERSION == 4

\* user_or_default_settings_file(settings_file_name)
user_or_default_settings_file(settings_file_name) ==
    IF settings_file_name = None
    THEN join(Cwd, DEFAULT_SETTINGS_FILE_NAME)
    ELSE IF \E i \in 1..Len(settings_file_name.v) : settings_file_name.v[i] = SEP
         THEN settings_file_name.v
         ELSE join(Cwd, settings_file_name.v)

\* read_settings_file(settings_file_name)
read_settings_file(settings_file_name, fsys) ==
    LET name == user_or_default_settings_file(settings_file_name)
        log1 == <<Call("isfile", name)>>
        r == read_json_file(name, log1, fsys)
        settings == r.value
    IN  IF ~isfile(fsys, name)
        THEN error_and_exit(400, "Cannot find the settings file. Please run pc-configure.py.",
                            "", <<>>, log1, 0, fsys)
        ELSE IF r.outcome # "return" THEN r
        ELSE IF ~Truthy(settings)
        THEN error_and_exit(500, "The settings file exists, but cannot be read. Please run pc-configure.py.",
                            "", <<>>, r.log, 0, fsys)
        \* settings['settings_file_version'] on an object that is no dictionary
        ELSE IF settings.t # "dict" THEN Raise("TypeError", <<>>, r.log, 0, fsys)
        \* ... and on a dictionary without the key
        ELSE IF "settings_file_version" \notin DOMAIN settings.v
        THEN Raise("KeyError", <<>>, r.log, 0, fsys)
        ELSE IF ~PyEq(settings.v["settings_file_version"], PyInt(DEFAULT_SETTINGS_FILE_VERSION))
        THEN error_and_exit(500, "The settings file appears to be out-of-date. Please rerun pc-configure.py, and/or download the latest version of these scripts.",
                            "", <<>>, r.log, 0, fsys)
        ELSE r

\* A dictionary cut down to some of its keys.
Restrict(d, keys) == [k \in keys |-> d[k]]

\* The dictionary write_settings_file builds.
SettingsFromArgs(a) ==
    Dict([k \in {"settings_file_version", "apiBase", "username", "password",
                 "api_compute", "ca_bundle"} |->
            CASE k = "settings_file_version" -> PyInt(DEFAULT_SETTINGS_FILE_VERSION)
              [] k = "apiBase"     -> normalize_api_base(a.api)
              [] k = "username"    -> a.username
              [] k = "password"    -> a.password
              [] k = "api_compute" -> normalize_api_compute_base(a.api_compute)
              [] k = "ca_bundle"   -> a.ca_bundle])

\* write_settings_file that leaves settings_file_version out of the record.
write_settings_file_unversioned(a, fsys) ==
    LET settings_file_name == user_or_default_settings_file(a.config_file)
        settings == Dict(Restrict(SettingsFromArgs(a).v,
                        {"apiBase", "username", "password", "api_compute", "ca_bundle"}))
    IN  write_json_file(settings_file_name, settings, TRUE, <<>>, fsys)

\* write_settings_file(args)
write_settings_file(a, fsys) ==
    LET settings_file_name == user_or_default_settings_file(a.config_file)
    IN  write_json_file(settings_file_name, SettingsFromArgs(a), TRUE, <<>>, fsys)

\* settings[key] = None unless the key is there.
SetDefault(d, key) == IF key \in DOMAIN d THEN d ELSE (key :> None) @@ d

\* The dictionary get_settings builds from the command line.
SettingsFromCommandLine(a) ==
    Dict([k \in {"apiBase", "username", "password", "api_compute", "ca_bundle"} |->
            CASE k = "apiBase"     -> normalize_api_base(a.api)
              [] k = "username"    -> a.username
              [] k = "password"    -> a.password
              [] k = "api_compute" -> normalize_api_compute_base(a.api_compute)
              [] k = "ca_bundle"   -> a.ca_bundle])

\* get_settings whose second test is `and` where the source has `or`.
get_settings_and(a, fsys) ==
    IF a.username = None /\ a.password = None /\ a.api = None
    THEN LET r == read_settings_file(a.config_file, fsys)
         IN  IF r.outcome # "return" THEN r
             ELSE [r EXCEPT !.value = Dict(SetDefault(SetDefault(r.value.v, "api_compute"), "ca_bundle"))]
    ELSE IF a.username = None /\ a.password = None /\ a.api = None
    THEN error_and_exit(400, "Access Key (--username), Secret Key (--password), and API/UI Base URL (--api) are all required.",
                        "", <<>>, <<>>, 0, fsys)
    ELSE Return(SettingsFromCommandLine(a), <<>>, <<>>, 0, fsys)

\* get_settings that takes what the command line leaves out from the settings file.
get_settings_merge(a, fsys) ==
    IF a.username = None /\ a.password = None /\ a.api = None
    THEN LET r == read_settings_file(a.config_file, fsys)
         IN  IF r.outcome # "return" THEN r
             ELSE [r EXCEPT !.value = Dict(SetDefault(SetDefault(r.value.v, "api_compute"), "ca_bundle"))]
    ELSE IF a.username = None \/ a.password = None \/ a.api = None
    THEN error_and_exit(400, "Access Key (--username), Secret Key (--password), and API/UI Base URL (--api) are all required.",
                        "", <<>>, <<>>, 0, fsys)
    ELSE LET r == read_settings_file(a.config_file, fsys)
         IN  IF r.outcome # "return" THEN r
             ELSE [r EXCEPT !.value = Dict(SettingsFromCommandLine(a).v @@ r.value.v)]

\* get_settings(args)
get_settings(a, fsys) ==
    IF a.username = None /\ a.password = None /\ a.api = None
    THEN LET r == read_settings_file(a.config_file, fsys)
         IN  IF r.outcome # "return" THEN r
             ELSE [r EXCEPT !.value = Dict(SetDefault(SetDefault(r.value.v, "api_compute"), "ca_bundle"))]
    ELSE IF a.username = None \/ a.password = None \/ a.api = None
    THEN error_and_exit(400, "Access Key (--username), Secret Key (--password), and API/UI Base URL (--api) are all required.",
                        "", <<>>, <<>>, 0, fsys)
    ELSE Return(SettingsFromCommandLine(a), <<>>, <<>>, 0, fsys)

\* prompt_for_verification_to_continue that lower-cases the response first.
prompt_for_verification_to_continue_lower(a, line, fsys) ==
    IF ~a.yes
    THEN LET out == <<Blank, Line("Ready to execute commands against your Prisma Cloud tenant ..."),
                      Line("Would you like to continue (y or yes)? "), Blank>>
         IN  IF lower(line) \notin {<<"y","e","s">>, <<"y">>}
             THEN error_and_exit(400, "Exiting ...", "", out, <<>>, 1, fsys)
             ELSE Return(None, out, <<>>, 1, fsys)
    ELSE Return(None, <<>>, <<>>, 0, fsys)

\* prompt_for_verification_to_continue(args); `line` is what input() returns.
prompt_for_verification_to_continue(a, line, fsys) ==
    IF ~a.yes
    THEN LET verification_response == line
             continue_response == {<<"y","e","s">>, <<"y">>}
             out == <<Blank, Line("Ready to execute commands against your Prisma Cloud tenant ..."),
                      Line("Would you like to continue (y or yes)? "), Blank>>
         IN  IF verification_response \notin continue_response
             THEN error_and_exit(400, "Exiting ...", "", out, <<>>, 1, fsys)
             ELSE Return(None, out, <<>>, 1, fsys)
    ELSE Return(None, <<>>, <<>>, 0, fsys)

-----------------------------------------------------------------------------
(* The inputs *)

\* Command-line values (argparse, type=str: a string or None).
Usernames == {None, Str(<<"u">>)}
Passwords == {None, Str(<<"p">>)}
Apis == {None, Str(<<>>), Str(<<"A","p","p","/">>)}
ApiComputes == {None, Str(<<>>), Str(<<"/">>), Str(<<"H","/">>)}
CaBundles == {None, Str(<<"b">>)}
\* no --config_file, a bare name, a relative path, an absolute path
ConfigFiles == {None, Str(<<"c">>), Str(<<"d","/","c">>), Str(<<"/","w","/","c">>)}

ArgsWith(yesses) ==
    [username : Usernames, password : Passwords, api : Apis, api_compute : ApiComputes,
     ca_bundle : CaBundles, config_file : ConfigFiles, yes : yesses]

\* The files a --config_file can name.
FsPaths == {<<"/","w">> \o <<"/">> \o DEFAULT_SETTINGS_FILE_NAME,
            <<"/","w","/","c">>, <<"/","w","/","d","/","c">>}

\* A settings record as an earlier run of write_settings_file left it.
StoredSettings ==
    [settings_file_version |-> PyInt(4), apiBase |-> Str(<<"a","p","i",".","x">>),
     username |-> Str(<<"f","u">>), password |-> Str(<<"f","p">>),
     api_compute |-> None, ca_bundle |-> None]

ValidText == json_dumps(Dict(StoredSettings))

\* What a settings file can hold before the process starts.
BrokenContents ==
    { File(<<>>),                                             \* an empty file
      File(<<LBRACE, TKey("apiBase"), COLON>>),               \* a truncated file
      File(<<LBRACE, RBRACE>>),                               \* {}
      File(<<LBRACK, TInt(1), RBRACK>>),                      \* [1]
      \* no settings_file_version
      File(json_dumps(Dict(Restrict(StoredSettings, {"apiBase", "username", "password"})))),
      \* an older version
      File(json_dumps(Dict([StoredSettings EXCEPT !.settings_file_version = PyInt(1)]))),
      \* the current version, without api_compute and ca_bundle
      File(json_dumps(Dict(Restrict(StoredSettings,
            {"settings_file_version", "apiBase", "username", "password"})))),
      \* the current version and nothing else
      File(json_dumps(Dict(Restrict(StoredSettings, {"settings_file_version"})))),
      \* the current version, with an empty api_compute
      File(json_dumps(Dict([StoredSettings EXCEPT !.api_compute = Str(<<>>)]))) }

PlainContents == {Absent, File(ValidText)}

\* Every file is absent or a valid settings file, but for at most one.
InitialFileSystems ==
    {f \in [FsPaths -> PlainContents \cup BrokenContents] :
        Cardinality({p \in FsPaths : f[p] \in BrokenContents}) <= 1}

NoEffect == [outcome |-> "none"]

\* An effect without the file system, which the state holds in fs.
Done(e) == [outcome |-> e.outcome, value |-> e.value, status |-> e.status,
            exc |-> e.exc, out |-> e.out, log |-> e.log, nread |-> e.nread]

\* sys.exit and an exception nobody catches both end the process.
After(e) == IF e.outcome = "return" THEN "running" ELSE "exited"

-----------------------------------------------------------------------------
(* The settings operations of one process on a file system *)

Init ==
    /\ fs \in InitialFileSystems
    /\ args \in ArgsWith({FALSE})
    /\ stdin = <<>>
    /\ op = "init"
    /\ ret = NoEffect
    /\ pc = "running"

GetSettings ==
    /\ pc = "running"
    /\ LET e == get_settings(args, fs)
       IN  /\ op' = "get_settings"
           /\ ret' = Done(e)
           /\ fs' = e.fs
           /\ pc' = After(e)
    /\ UNCHANGED <<args, stdin>>

ReadSettingsFile ==
    /\ pc = "running"
    /\ LET e == read_settings_file(args.config_file, fs)
       IN  /\ op' = "read_settings_file"
           /\ ret' = Done(e)
           /\ fs' = e.fs
           /\ pc' = After(e)
    /\ UNCHANGED <<args, stdin>>

WriteSettingsFile ==
    /\ pc = "running"
    /\ LET e == write_settings_file(args, fs)
       IN  /\ op' = "write_settings_file"
           /\ ret' = Done(e)
           /\ fs' = e.fs
           /\ pc' = After(e)
    /\ UNCHANGED <<args, stdin>>

Next == GetSettings \/ ReadSettingsFile \/ WriteSettingsFile

Spec == Init /\ [][Next]_vars

-----------------------------------------------------------------------------
(* The confirmation prompt of one process *)

\* What the user can type at the prompt.
Responses ==
    { <<"y">>, <<"y","e","s">>, <<"Y">>, <<"Y","E","S">>, <<"Y","e","s">>, <<>>,
      <<"n">>, <<" ","y">>, <<"y"," ">>, <<"y","e">> }

NoFiles == [p \in FsPaths |-> Absent]

InitPrompt ==
    /\ fs = NoFiles
    /\ args \in ArgsWith(BOOLEAN)
    /\ stdin \in Responses
    /\ op = "init"
    /\ ret = NoEffect
    /\ pc = "running"

PromptForVerificationToContinue ==
    /\ pc = "running"
    /\ LET e == prompt_for_verification_to_continue(args, stdin, fs)
       IN  /\ op' = "prompt_for_verification_to_continue"
           /\ ret' = Done(e)
           /\ fs' = e.fs
           /\ pc' = After(e)
    /\ UNCHANGED <<args, stdin>>

NextPrompt == PromptForVerificationToContinue

SpecPrompt == InitPrompt /\ [][NextPrompt]_vars

-----------------------------------------------------------------------------
(* URL normalization as a pure function *)

MaxChunks == 3

\* The pieces the input URLs are made of.
Chunks ==
    { HTTP, HTTPS, <<"h">>, <<"t","t","p",":","/","/">>, <<"A","p","p">>,
      REDLOCK, <<"/">>, <<"x",".">>, <<"H","T","T","P","S",":","/","/">> }

RECURSIVE Words(_)
Words(n) ==
    IF n = 0 THEN {<<>>}
    ELSE LET shorter == Words(n - 1)
         IN  shorter \cup {c \o w : c \in Chunks, w \in shorter}

UrlInputs == {None} \cup {Str(w) : w \in Words(MaxChunks)}

InitNorm ==
    /\ fs = NoFiles
    /\ args \in UrlInputs
    /\ stdin = <<>>
    /\ op = "init"
    /\ ret = NoEffect
    /\ pc = "running"

NormalizeApiBase ==
    /\ op' = "normalize_api_base"
    /\ ret' = Done(Return(normalize_api_base(args), <<>>, <<>>, 0, fs))
    /\ UNCHANGED <<fs, args, stdin, pc>>

NormalizeApiComputeBase ==
    /\ op' = "normalize_api_compute_base"
    /\ ret' = Done(Return(normalize_api_compute_base(args), <<>>, <<>>, 0, fs))
    /\ UNCHANGED <<fs, args, stdin, pc>>

NextNorm == NormalizeApiBase \/ NormalizeApiComputeBase

SpecNorm == InitNorm /\ [][NextNorm]_vars

-----------------------------------------------------------------------------
(* Searching a list of dictionaries.  A dictionary is a function from its  *)
(* keys to strings; `i` is the position the loop has reached.              *)

RECURSIVE search_list_value_from(_, _, _, _, _)
search_list_value_from(i, list_to_search, field_to_search, field_to_return, search_value) ==
    IF i > Len(list_to_search) THEN Return(None, <<>>, <<>>, 0, NoFiles)
    ELSE LET source_item == list_to_search[i]
         IN  IF field_to_search \in DOMAIN source_item
                /\ source_item[field_to_search] = search_value
             THEN IF field_to_return \in DOMAIN source_item
                  THEN Return(Str(source_item[field_to_return]), <<>>, <<>>, 0, NoFiles)
                  ELSE Raise("KeyError", <<>>, <<>>, 0, NoFiles)
             ELSE search_list_value_from(i + 1, list_to_search, field_to_search,
                                         field_to_return, search_value)

search_list_value(list_to_search, field_to_search, field_to_return, search_value) ==
    search_list_value_from(1, list_to_search, field_to_search, field_to_return, search_value)

\* search_value is lower-cased by the caller, search_list_value_lower.
RECURSIVE search_list_value_lower_from(_, _, _, _, _)
search_list_value_lower_from(i, list_to_search, field_to_search, field_to_return, search_value) ==
    IF i > Len(list_to_search) THEN Return(None, <<>>, <<>>, 0, NoFiles)
    ELSE LET source_item == list_to_search[i]
         IN  IF field_to_search \in DOMAIN source_item
                /\ lower(source_item[field_to_search]) = search_value
             THEN IF field_to_return \in DOMAIN source_item
                  THEN Return(Str(source_item[field_to_return]), <<>>, <<>>, 0, NoFiles)
                  ELSE Raise("KeyError", <<>>, <<>>, 0, NoFiles)
             ELSE search_list_value_lower_from(i + 1, list_to_search, field_to_search,
                                               field_to_return, search_value)

search_list_value_lower(list_to_search, field_to_search, field_to_return, search_value) ==
    search_list_value_lower_from(1, list_to_search, field_to_search, field_to_return,
                                 lower(search_value))

RECURSIVE search_list_object_from(_, _, _, _)
search_list_object_from(i, list_to_search, field_to_search, search_value) ==
    IF i > Len(list_to_search) THEN None
    ELSE LET source_item == list_to_search[i]
         IN  IF field_to_search \in DOMAIN source_item
                /\ source_item[field_to_search] = search_value
             THEN Dict(source_item)
             ELSE search_list_object_from(i + 1, list_to_search, field_to_search, search_value)

search_list_object(list_to_search, field_to_search, search_value) ==
    Return(search_list_object_from(1, list_to_search, field_to_search, search_value),
           <<>>, <<>>, 0, NoFiles)

RECURSIVE search_list_object_lower_from(_, _, _, _)
search_list_object_lower_from(i, list_to_search, field_to_search, search_value) ==
    IF i > Len(list_to_search) THEN None
    ELSE LET source_item == list_to_search[i]
         IN  IF field_to_search \in DOMAIN source_item
                /\ lower(source_item[field_to_search]) = search_value
             THEN Dict(source_item)
             ELSE search_list_object_lower_from(i + 1, list_to_search, field_to_search,
                                                search_value)

\* search_list_object_lower that compares with search_value as it was given.
search_list_object_lower_asgiven(list_to_search, field_to_search, search_value) ==
    Return(search_list_object_lower_from(1, list_to_search, field_to_search, search_value),
           <<>>, <<>>, 0, NoFiles)

search_list_object_lower(list_to_search, field_to_search, search_value) ==
    Return(search_list_object_lower_from(1, list_to_search, field_to_search,
                                         lower(search_value)),
           <<>>, <<>>, 0, NoFiles)

\* The loop of search_list_list: it appends the first match and breaks.
RECURSIVE search_list_list_from(_, _, _, _)
search_list_list_from(i, list_to_search, field_to_search, search_value) ==
    IF i > Len(list_to_search) THEN <<>>
    ELSE LET source_item == list_to_search[i]
         IN  IF field_to_search \in DOMAIN source_item
                /\ source_item[field_to_search] = search_value
             THEN <<Dict(source_item)>>
             ELSE search_list_list_from(i + 1, list_to_search, field_to_search, search_value)

search_list_list(list_to_search, field_to_search, search_value) ==
    Return(List(search_list_list_from(1, list_to_search, field_to_search, search_value)),
           <<>>, <<>>, 0, NoFiles)

RECURSIVE search_list_list_lower_from(_, _, _, _)
search_list_list_lower_from(i, list_to_search, field_to_search, search_value) ==
    IF i > Len(list_to_search) THEN <<>>
    ELSE LET source_item == list_to_search[i]
         IN  IF field_to_search \in DOMAIN source_item
                /\ lower(source_item[field_to_search]) = search_value
             THEN <<Dict(source_item)>>
             ELSE search_list_list_lower_from(i + 1, list_to_search, field_to_search,
                                              search_value)

search_list_list_lower(list_to_search, field_to_search, search_value) ==
    Return(List(search_list_list_lower_from(1, list_to_search, field_to_search,
                                            lower(search_value))),
           <<>>, <<>>, 0, NoFiles)

MaxLen == 3

\* The dictionaries of the lists: "name" and "id" are each there or not.
NameValues == {<<"a">>, <<"A">>}
IdValues == {<<"1">>, <<"2">>}
SearchValues == {<<"a">>, <<"A">>, <<"b">>}

Items ==
    UNION { [D -> NameValues \cup IdValues] : D \in SUBSET {"name", "id"} }

SearchItems ==
    {d \in Items : /\ "name" \in DOMAIN d => d["name"] \in NameValues
                   /\ "id" \in DOMAIN d => d["id"] \in IdValues}

Lists == UNION { [1..n -> SearchItems] : n \in 0..MaxLen }

InitSearch ==
    /\ fs = NoFiles
    /\ args \in [list_to_search : Lists, field_to_search : {"name"},
                 field_to_return : {"id"}, search_value : SearchValues]
    /\ stdin = <<>>
    /\ op = "init"
    /\ ret = NoEffect
    /\ pc = "running"

SearchListValue ==
    /\ op' = "search_list_value"
    /\ ret' = Done(search_list_value(args.list_to_search, args.field_to_search,
                                     args.field_to_return, args.search_value))
    /\ UNCHANGED <<fs, args, stdin, pc>>

SearchListValueLower ==
    /\ op' = "search_list_value_lower"
    /\ ret' = Done(search_list_value_lower(args.list_to_search, args.field_to_search,
                                           args.field_to_return, args.search_value))
    /\ UNCHANGED <<fs, args, stdin, pc>>

SearchListObject ==
    /\ op' = "search_list_object"
    /\ ret' = Done(search_list_object(args.list_to_search, args.field_to_search,
                                      args.search_value))
    /\ UNCHANGED <<fs, args, stdin, pc>>

SearchListObjectLower ==
    /\ op' = "search_list_object_lower"
    /\ ret' = Done(search_list_object_lower(args.list_to_search, args.field_to_search,
                                            args.search_value))
    /\ UNCHANGED <<fs, args, stdin, pc>>

SearchListList ==
    /\ op' = "search_list_list"
    /\ ret' = Done(search_list_list(args.list_to_search, args.field_to_search,
                                    args.search_value))
    /\ UNCHANGED <<fs, args, stdin, pc>>

SearchListListLower ==
    /\ op' = "search_list_list_lower"
    /\ ret' = Done(search_list_list_lower(args.list_to_search, args.field_to_search,
                                          args.search_value))
    /\ UNCHANGED <<fs, args, stdin, pc>>

NextSearch ==
    \/ SearchListValue
    \/ SearchListValueLower
    \/ SearchListObject
    \/ SearchListObjectLower
    \/ SearchListList
    \/ SearchListListLower

SpecSearch == InitSearch /\ [][NextSearch]_vars

-----------------------------------------------------------------------------
(* Properties *)

Present(x) == x # None
AllThree(a) == Present(a.username) /\ Present(a.password) /\ Present(a.api)
NoneOfThree(a) == ~Present(a.username) /\ ~Present(a.password) /\ ~Present(a.api)
Partial(a) == ~AllThree(a) /\ ~NoneOfThree(a)

\* The file the process's --config_file names.
SettingsPath == Resolve(user_or_default_settings_file(args.config_file))

\* C1: get_settings with one or two, but not all three, of username,
\* password and api ends the process with a non-zero exit status, hands no
\* settings record to its caller and makes no call on the file system.
C1_PartialCredentialsExit ==
    (op = "get_settings" /\ Partial(args)) =>
        /\ ret.outcome = "exit"
        /\ ret.status # 0
        /\ ret.value = None
        /\ ret.log = <<>>
        /\ pc = "exited"

\* Only the username is given, and a valid settings file is there to be read.
C1_Witness ==
    /\ op = "get_settings"
    /\ Present(args.username) /\ ~Present(args.password) /\ ~Present(args.api)
    /\ fs[SettingsPath] = File(ValidText)
    /\ ret.outcome = "exit"

\* The file at `path` exists, parses and holds settings_file_version 4.
IsCurrentSettingsFile(fsys, path) ==
    /\ fsys[path].k = "file"
    /\ json_load(fsys[path].text).ok
    /\ json_load(fsys[path].text).value.t = "dict"
    /\ "settings_file_version" \in DOMAIN json_load(fsys[path].text).value.v
    /\ json_load(fsys[path].text).value.v["settings_file_version"]
          = PyInt(DEFAULT_SETTINGS_FILE_VERSION)

\* The diagnostic of error_and_exit was printed.
DiagnosticPrinted(e) == \E i \in 1..Len(e.out) : e.out[i].text = "Status Code: %s"

\* C2: read_settings_file returns a record only when the file exists, parses
\* and holds settings_file_version 4; in every other state of the file
\* (absent, malformed, empty, no settings_file_version, another version) it
\* prints a diagnostic and ends the process with a non-zero status.
C2_LoadOnlyCurrentVersion ==
    op = "read_settings_file" =>
        IF IsCurrentSettingsFile(fs, SettingsPath)
        THEN ret.outcome = "return"
        ELSE /\ ret.outcome = "exit"
             /\ ret.status # 0
             /\ DiagnosticPrinted(ret)

\* C3: write_settings_file(args) followed by read_settings_file on the same
\* config_file returns a record with settings_file_version 4 and with
\* apiBase, username, password, api_compute and ca_bundle as normalized from
\* args, whatever the file held before.
C3_RoundTrip ==
    [][(op = "write_settings_file" /\ ret.outcome = "return"
            /\ op' = "read_settings_file")
        => /\ ret'.outcome = "return"
           /\ ret'.value =
                Dict([settings_file_version |-> PyInt(DEFAULT_SETTINGS_FILE_VERSION),
                      apiBase |-> normalize_api_base(args.api),
                      username |-> args.username,
                      password |-> args.password,
                      api_compute |-> normalize_api_compute_base(args.api_compute),
                      ca_bundle |-> args.ca_bundle])]_vars

\* A record read back from a relative path: its username is the command
\* line's, which no file held before the save.
C3_Witness ==
    /\ op = "read_settings_file"
    /\ ret.outcome = "return"
    /\ args.config_file = Str(<<"d","/","c">>)
    /\ args.username = Str(<<"u">>)
    /\ args.api_compute = Str(<<"H","/">>)
    /\ {"username", "api_compute"} \subseteq DOMAIN ret.value.v
    /\ ret.value.v["username"] = args.username
    /\ ret.value.v["api_compute"] = Str(<<"h">>)

\* C4: with username, password and api all given, get_settings makes no call
\* on the file system and leaves it as it was, and returns the record built
\* from the arguments alone, api and api_compute normalized, whatever the
\* settings file holds.
C4_CommandLineIgnoresFile ==
    [][(op' = "get_settings" /\ AllThree(args))
        => /\ fs' = fs
           /\ ret'.log = <<>>
           /\ ret'.outcome = "return"
           /\ ret'.value =
                Dict([apiBase |-> normalize_api_base(args.api),
                      username |-> args.username,
                      password |-> args.password,
                      api_compute |-> normalize_api_compute_base(args.api_compute),
                      ca_bundle |-> args.ca_bundle])]_vars

\* All three are given while the settings file named is an empty file.
C4_Witness ==
    /\ op = "get_settings"
    /\ AllThree(args)
    /\ args.api = Str(<<"A","p","p","/">>)
    /\ fs[SettingsPath] = File(<<>>)
    /\ ret.outcome = "return"
    /\ ret.value.v["apiBase"] = Str(<<"a","p","i">>)

\* C5: every record get_settings returns has apiBase, username and password
\* present and not None, and has the keys api_compute and ca_bundle.
C5_FullyPopulated ==
    (op = "get_settings" /\ ret.outcome = "return") =>
        /\ ret.value.t = "dict"
        /\ {"apiBase", "username", "password", "api_compute", "ca_bundle"}
              \subseteq DOMAIN ret.value.v
        /\ ret.value.v["apiBase"] # None
        /\ ret.value.v["username"] # None
        /\ ret.value.v["password"] # None

NullOrNonEmpty(x) == x = None \/ (x.t = "str" /\ x.v # <<>>)

\* C7: in every record get_settings returns and every record
\* write_settings_file writes, api_compute and ca_bundle are each None or a
\* non-empty string.
C7_NeverEmptyString ==
    /\ (op = "get_settings" /\ ret.outcome = "return"
            /\ {"api_compute", "ca_bundle"} \subseteq DOMAIN ret.value.v)
        => /\ NullOrNonEmpty(ret.value.v["api_compute"])
           /\ NullOrNonEmpty(ret.value.v["ca_bundle"])
    /\ (op = "write_settings_file" /\ ret.outcome = "return")
        => /\ NullOrNonEmpty(json_load(fs[SettingsPath].text).value.v["api_compute"])
           /\ NullOrNonEmpty(json_load(fs[SettingsPath].text).value.v["ca_bundle"])

\* C8: with --yes the prompt returns without printing or reading; without
\* it, exactly one line is read, the process goes on only when the line is
\* exactly "yes" or "y", and ends with exit status 1 on any other line.
C8_PromptConfirmation ==
    op = "prompt_for_verification_to_continue" =>
        IF args.yes
        THEN ret.outcome = "return" /\ ret.nread = 0 /\ ret.out = <<>>
        ELSE /\ ret.nread = 1
             /\ IF stdin \in {<<"y","e","s">>, <<"y">>}
                THEN ret.outcome = "return" /\ pc = "running"
                ELSE ret.outcome = "exit" /\ ret.status = 1 /\ pc = "exited"

\* The user answers "Y".
C8_Witness ==
    /\ op = "prompt_for_verification_to_continue"
    /\ ~args.yes
    /\ stdin = <<"Y">>
    /\ ret.outcome = "exit"

\* str.startswith / str.endswith
startswith(s, p) == Len(s) >= Len(p) /\ SubSeq(s, 1, Len(p)) = p
endswith(s, p) == Len(s) >= Len(p) /\ SubSeq(s, Len(s) - Len(p) + 1, Len(s)) = p

\* The rewriting the specification describes: lower-case, strip a leading
\* http:// or https://, strip the trailing '/' characters, then replace
\* every 'app' by 'api' and every 'redlock' by 'prismacloud'.
StripLeadingScheme(s) ==
    IF startswith(s, HTTP) THEN SubSeq(s, Len(HTTP) + 1, Len(s))
    ELSE IF startswith(s, HTTPS) THEN SubSeq(s, Len(HTTPS) + 1, Len(s))
    ELSE s

ReferenceRewriting(s) ==
    replace(replace(rstrip(StripLeadingScheme(lower(s)), {"/"}), APP, API),
            REDLOCK, PRISMACLOUD)

\* C6: normalize_api_base returns None for None and for the empty string and
\* otherwise the reference rewriting of its input, which never begins with
\* http:// or https://, never ends with '/' and has no upper-case character.
C6_NormalizeApiBase ==
    op = "normalize_api_base" =>
        IF args = None \/ args = Str(<<>>)
        THEN ret.value = None
        ELSE /\ ret.value = Str(ReferenceRewriting(args.v))
             /\ ~startswith(ret.value.v, HTTP)
             /\ ~startswith(ret.value.v, HTTPS)
             /\ ~endswith(ret.value.v, <<"/">>)
             /\ lower(ret.value.v) = ret.value.v

\* Whether a dictionary has the searched field with the searched value.
Matches(item, ignore_case) ==
    /\ args.field_to_search \in DOMAIN item
    /\ IF ignore_case
       THEN lower(item[args.field_to_search]) = lower(args.search_value)
       ELSE item[args.field_to_search] = args.search_value

\* The dictionaries of the list that match, in the list's order.
AllMatching(ignore_case) ==
    LET IsMatch(item) == Matches(item, ignore_case)
        found == SelectSeq(args.list_to_search, IsMatch)
    IN  List([i \in 1..Len(found) |-> Dict(found[i])])

\* C9: search_list_list and search_list_list_lower return all the elements
\* that have the searched field with the searched value (whatever the case,
\* for _lower), in the list's order: as many as there are matches.
C9_FindAllMatching ==
    /\ op = "search_list_list" =>
          /\ ret.value = AllMatching(FALSE)
          /\ Len(ret.value.v) = Cardinality({i \in 1..Len(args.list_to_search) :
                                                Matches(args.list_to_search[i], FALSE)})
    /\ op = "search_list_list_lower" =>
          /\ ret.value = AllMatching(TRUE)
          /\ Len(ret.value.v) = Cardinality({i \in 1..Len(args.list_to_search) :
                                                Matches(args.list_to_search[i], TRUE)})

\* The position of the first match, 0 when there is none.
FirstMatching(ignore_case) ==
    LET found == {i \in 1..Len(args.list_to_search) :
                     Matches(args.list_to_search[i], ignore_case)}
    IN  IF found = {} THEN 0 ELSE CHOOSE i \in found : \A j \in found : i <= j

FirstObject(ignore_case) ==
    IF FirstMatching(ignore_case) = 0 THEN None
    ELSE Dict(args.list_to_search[FirstMatching(ignore_case)])

\* The find-first result when the value of field_to_return is asked for
\* (where the first match has that field).
FirstValueReturned(ignore_case) ==
    IF FirstMatching(ignore_case) = 0
    THEN ret.outcome = "return" /\ ret.value = None
    ELSE LET item == args.list_to_search[FirstMatching(ignore_case)]
         IN  args.field_to_return \in DOMAIN item =>
                ret.outcome = "return" /\ ret.value = Str(item[args.field_to_return])

\* C10: the find-first helpers return the first element of the list (or its
\* requested field) whose searched field matches, passing over the elements
\* without the field, and None when there is none; the _lower variants match
\* whatever the case of the stored and the searched value, the others only
\* on the exact value.
C10_FindFirstMatching ==
    /\ op = "search_list_object" =>
          ret.outcome = "return" /\ ret.value = FirstObject(FALSE)
    /\ op = "search_list_object_lower" =>
          ret.outcome = "return" /\ ret.value = FirstObject(TRUE)
    /\ op = "search_list_value" => FirstValueReturned(FALSE)
    /\ op = "search_list_value_lower" => FirstValueReturned(TRUE)

\* "A" is searched for, whatever the case, in a list whose first element has
\* no name, whose second is named "a" and whose third "A".
C10_Witness ==
    /\ op = "search_list_object_lower"
    /\ args.search_value = <<"A">>
    /\ Len(args.list_to_search) = 3
    /\ "name" \notin DOMAIN args.list_to_search[1]
    /\ "name" \in DOMAIN args.list_to_search[2]
    /\ "name" \in DOMAIN args.list_to_search[3]
    /\ args.list_to_search[2]["name"] = <<"a">>
    /\ args.list_to_search[3]["name"] = <<"A">>
    /\ ret.value = Dict(args.list_to_search[2])

====
